---- MODULE Spec2Model ----
(***************************************************************************)
(* A model of nerve/parsing.py (spiritual-machine/nerve-bio): the          *)
(* character policy, word validation, quality score, ligature/accent       *)
(* repair, blacklist cleaning, and the module-level batch loop that runs   *)
(* transcribePDF on every entry of test_pdfs.                              *)
(*                                                                         *)
(* A Python str is a sequence of Unicode codepoints (naturals), so ord()   *)
(* is the element itself; a file is a sequence of bytes.  The platform is  *)
(* POSIX (os.linesep = "\n", case-sensitive file names).                   *)
(***************************************************************************)
EXTENDS Integers, Sequences, FiniteSets, TLC

VARIABLES
    dir,          \* os.listdir(testPDFDir): the sequence of file names the loop visits
    pdfs,         \* file name -> "unreadable" or the sequence of page texts pymupdf yields
    idx,          \* position of the module-level for loop in dir
    pc,           \* control point of the running code
    files,        \* contents of testTXTDir: txt file name -> bytes
    pageNo,       \* position of the page loop of transcribePDF
    text,         \* local text of transcribePDF
    fixedText,    \* local fixedText of transcribePDF
    qualityScore, \* value returned by checktextQuality inside transcribePDF
    outcome,      \* per visited file: the branch transcribePDF took
    ocrCalls,     \* per visited file: number of pytesseract invocations
    exception,    \* the exception that ended the interpreter, or "none"
    arg,          \* argument of a directly called function
    ret           \* result of a directly called function

vars == <<dir, pdfs, idx, pc, files, pageNo, text, fixedText, qualityScore,
          outcome, ocrCalls, exception, arg, ret>>

(***************************************************************************)
(* Bounds of the checked instances.                                        *)
(***************************************************************************)
MaxWordLen == 3
MaxFixLen == 4
MaxCleanLen == 3
MaxScoreLen == 4
MaxPages == 2
MaxDocs == 2

Max2(a, b) == IF a >= b THEN a ELSE b

\* F(v), with v evaluated to a value before F is entered (an operator
\* argument is otherwise evaluated where F first needs it, on top of F's
\* own evaluation stack)
Then(v, F(_)) == CHOOSE y \in {F(x) : x \in {v}} : TRUE

StrUpTo(S, n) == UNION {[1..k -> S] : k \in 0..n}

RECURSIVE Rep(_, _)
Rep(s, n) == IF n = 0 THEN <<>> ELSE s \o Rep(s, n - 1)

Occurs(key, t) ==
    \E i \in 1..Max2(0, Len(t) - Len(key) + 1) :
        /\ i + Len(key) - 1 <= Len(t)
        /\ \A k \in 1..Len(key) : t[i + k - 1] = key[k]

(***************************************************************************)
(* Global configuration, parsing.py lines 40-57.                           *)
(***************************************************************************)
\* 0.92 as the exact fraction 92/100
qualityScoreThreshold == <<92, 100>>

allowedChars ==
    << <<32, 126>>,      \* (0x0020, 0x007E) Basic ASCII
       <<160, 255>>,     \* (0x00A0, 0x00FF) Latin-1 Supplement
       <<8192, 8303>>,   \* (0x2000, 0x206F) General Punctuation
       <<880, 1023>>,    \* (0x0370, 0x03FF) Greek and Coptic
       <<8704, 8959>> >> \* (0x2200, 0x22FF) Mathematical operators

\* '◦' U+25E6, '˚' U+02DA, '°' U+00B0
whiteListedChars == {9702, 730, 176}

blackListedChars ==
    {164, 167, 169, 174, 182, 8226, 8224, 8225, 9702, 730, 8251, 8258, 8253,
     8265, 8229, 9786, 9787, 9829, 9830, 9827, 9824, 10022, 10023, 9733, 9734,
     10026, 9728, 9729, 9730, 9731, 9732, 65533, 8203, 8204, 8205, 8288, 65279,
     8234, 8235, 8236, 8237, 8238, 8294, 8295, 8296, 8297, 9642, 9643, 9654,
     9664}

\* ['\n', '\r', '\t']
allowedEscapedChars == <<10, 13, 9>>

InList(x, list) == \E i \in 1..Len(list) : list[i] = x

(***************************************************************************)
(* textSlicer: str.split() with no separator splits on runs of Unicode     *)
(* whitespace and yields no empty word.                                    *)
(***************************************************************************)
isspace(c) ==
    c \in {9, 10, 11, 12, 13, 28, 29, 30, 31, 32, 133, 160, 5760, 8232, 8233,
           8239, 8287, 12288} \cup (8192..8202)

\* the k-th word runs from the k-th position that starts a run of
\* non-whitespace to the last position of that run
split(s) ==
    LET starts == {i \in 1..Len(s) :
                      ~isspace(s[i]) /\ (i = 1 \/ isspace(s[i - 1]))}
        startOf(k) == CHOOSE i \in starts :
                          Cardinality({j \in starts : j <= i}) = k
        endOf(i) == CHOOSE e \in i..Len(s) :
                        /\ \A j \in i..e : ~isspace(s[j])
                        /\ (e = Len(s) \/ isspace(s[e + 1]))
    IN  [k \in 1..Cardinality(starts) |->
            SubSeq(s, startOf(k), endOf(startOf(k)))]

textSlicer(sampleText) == split(sampleText)

(***************************************************************************)
(* checkInvalidChars, lines 78-98.  charStep is one iteration of the loop  *)
(* over the characters: the new value of isInvalid.                        *)
(***************************************************************************)
\* variants of the loop body: the blacklist tested before the whitelist, and
\* the range test left out
charStepBlacklistFirst(char, isInvalid) ==
    IF char \in blackListedChars THEN TRUE
    ELSE IF InList(char, allowedEscapedChars) THEN isInvalid
    ELSE IF char \in whiteListedChars THEN isInvalid
    ELSE LET isInRange == \E r \in 1..Len(allowedChars) :
                              allowedChars[r][1] <= char /\ char <= allowedChars[r][2]
         IN  IF ~isInRange THEN TRUE ELSE isInvalid

charStepBlacklistOnly(char, isInvalid) ==
    IF InList(char, allowedEscapedChars) THEN isInvalid
    ELSE IF char \in whiteListedChars THEN isInvalid
    ELSE IF char \in blackListedChars THEN TRUE
    ELSE isInvalid

charStep(char, isInvalid) ==
    IF InList(char, allowedEscapedChars) THEN isInvalid
    ELSE IF char \in whiteListedChars THEN isInvalid
    ELSE LET ordChar == char
             isInRange == \E r \in 1..Len(allowedChars) :
                              allowedChars[r][1] <= ordChar /\ ordChar <= allowedChars[r][2]
         IN  IF ~isInRange THEN TRUE
             ELSE IF char \in blackListedChars THEN TRUE
             ELSE isInvalid

RECURSIVE charLoop(_, _, _)
charLoop(word, i, isInvalid) ==
    IF i > Len(word) THEN isInvalid
    ELSE charLoop(word, i + 1, charStep(word[i], isInvalid))

checkInvalidChars(word) == charLoop(word, 1, FALSE)

(***************************************************************************)
(* fixText, lines 101-115.  replace is str.replace for a non-empty old:   *)
(* find the next occurrence at or after the current position, copy the     *)
(* text before it and then new, and go on behind the occurrence.           *)
(***************************************************************************)
\* s.find(old, from), 0 when there is none
find(s, old, from) ==
    LET M == {i \in from..(Len(s) - Len(old) + 1) :
                 \A k \in 1..Len(old) : s[i + k - 1] = old[k]}
    IN  IF M = {} THEN 0 ELSE CHOOSE i \in M : \A j \in M : i <= j

RECURSIVE replaceFrom(_, _, _, _)
replaceFrom(s, from, old, new) ==
    LET i == find(s, old, from)
    IN  IF i = 0 THEN SubSeq(s, from, Len(s))
        ELSE SubSeq(s, from, i - 1) \o new \o replaceFrom(s, i + Len(old), old, new)

replace(s, old, new) == replaceFrom(s, 1, old, new)

\* the dict ligatures in insertion order, as <<key, value>>
ligatures ==
    << <<<<64256>>, <<102, 102>>>>,       \* 'ﬀ': 'ff'
       <<<<64257>>, <<102, 105>>>>,       \* 'ﬁ': 'fi'
       <<<<64258>>, <<102, 108>>>>,       \* 'ﬂ': 'fl'
       <<<<64259>>, <<102, 102, 105>>>>,  \* 'ﬃ': 'ffi'
       <<<<64260>>, <<102, 102, 108>>>>,  \* 'ﬄ': 'ffl'
       <<<<230>>, <<97, 101>>>>,          \* 'æ': 'ae'
       <<<<339>>, <<111, 101>>>> >>       \* 'œ': 'oe'

\* the dict brokenAccents in insertion order (the literal repeats the key
\* 'I´', which a dict holds once, at its first position); the marks are
\* U+00B4, '~', U+00B8, '`', '^' and U+00A8
brokenAccents ==
    << <<<<305, 180>>, <<237>>>>, <<<<73, 180>>, <<205>>>>, <<<<105, 180>>, <<237>>>>, <<<<97, 180>>, <<225>>>>,
       <<<<65, 180>>, <<193>>>>, <<<<101, 180>>, <<233>>>>, <<<<69, 180>>, <<201>>>>, <<<<111, 180>>, <<243>>>>,
       <<<<79, 180>>, <<211>>>>, <<<<117, 180>>, <<250>>>>, <<<<85, 180>>, <<218>>>>, <<<<110, 126>>, <<241>>>>,
       <<<<78, 126>>, <<209>>>>, <<<<99, 184>>, <<231>>>>, <<<<67, 184>>, <<199>>>>, <<<<97, 96>>, <<224>>>>,
       <<<<65, 96>>, <<192>>>>, <<<<101, 96>>, <<232>>>>, <<<<69, 96>>, <<200>>>>, <<<<105, 96>>, <<236>>>>,
       <<<<73, 96>>, <<204>>>>, <<<<111, 96>>, <<242>>>>, <<<<79, 96>>, <<210>>>>, <<<<117, 96>>, <<249>>>>,
       <<<<85, 96>>, <<217>>>>, <<<<97, 94>>, <<226>>>>, <<<<65, 94>>, <<194>>>>, <<<<101, 94>>, <<234>>>>,
       <<<<69, 94>>, <<202>>>>, <<<<105, 94>>, <<238>>>>, <<<<73, 94>>, <<206>>>>, <<<<111, 94>>, <<244>>>>,
       <<<<79, 94>>, <<212>>>>, <<<<117, 94>>, <<251>>>>, <<<<85, 94>>, <<219>>>>, <<<<97, 168>>, <<228>>>>,
       <<<<65, 168>>, <<196>>>>, <<<<101, 168>>, <<235>>>>, <<<<69, 168>>, <<203>>>>, <<<<105, 168>>, <<239>>>>,
       <<<<73, 168>>, <<207>>>>, <<<<111, 168>>, <<246>>>>, <<<<79, 168>>, <<214>>>>, <<<<117, 168>>, <<252>>>>,
       <<<<85, 168>>, <<220>>>> >>

\* for key in d.keys(): text = text.replace(key, d[key]), for the entries
\* lo..hi of d in order; the run of replacements is composed by halves
RECURSIVE replaceKeys(_, _, _, _)
replaceKeys(s, d, lo, hi) ==
    IF lo > hi THEN s
    ELSE IF lo = hi THEN replace(s, d[lo][1], d[lo][2])
    ELSE LET mid == (lo + hi) \div 2
         IN  Then(replaceKeys(s, d, lo, mid),
                  LAMBDA x : replaceKeys(x, d, mid + 1, hi))

\* variant with the two passes in the other order
fixTextAccentsFirst(t) ==
    Then(replaceKeys(t, brokenAccents, 1, Len(brokenAccents)),
         LAMBDA x : replaceKeys(x, ligatures, 1, Len(ligatures)))

fixText(t) ==
    Then(replaceKeys(t, ligatures, 1, Len(ligatures)),
         LAMBDA x : replaceKeys(x, brokenAccents, 1, Len(brokenAccents)))

(***************************************************************************)
(* ftfy.fix_text, called at line 127, with ftfy's default configuration.   *)
(* Of its fixes, the two that act on the characters used here: decoding    *)
(* of UTF-8 text that was read as Windows-1252 (the bytes E2 80 A2 of      *)
(* U+2022 read as U+00E2 U+20AC U+00A2), and fix_line_breaks, which turns  *)
(* "\r\n" and "\r" into "\n".                                              *)
(***************************************************************************)
ftfy_fix_encoding(t) == replace(t, <<226, 8364, 162>>, <<8226>>)

ftfy_fix_line_breaks(t) ==
    Then(replace(t, <<13, 10>>, <<10>>), LAMBDA x : replace(x, <<13>>, <<10>>))

ftfy_fix_text(t) ==
    Then(ftfy_fix_encoding(t), LAMBDA x : ftfy_fix_line_breaks(x))

(***************************************************************************)
(* cleanText, lines 117-128.  The for loop iterates over the string object *)
(* it was given while the name text is rebound to the shortened string.    *)
(***************************************************************************)
\* the loop body for the characters lo..hi of orig in order, applied to t;
\* the run of iterations is composed by halves
RECURSIVE removeLoop(_, _, _, _)
removeLoop(orig, lo, hi, t) ==
    IF lo > hi THEN t
    ELSE IF lo = hi
         THEN IF orig[lo] \in blackListedChars
              THEN replace(t, <<orig[lo]>>, <<>>)
              ELSE t
    ELSE LET mid == (lo + hi) \div 2
         IN  Then(removeLoop(orig, lo, mid, t),
                  LAMBDA x : removeLoop(orig, mid + 1, hi, x))

cleanText(t) == Then(removeLoop(t, 1, Len(t), t), LAMBDA x : ftfy_fix_text(x))

(***************************************************************************)
(* checktextQuality, lines 131-150.  A float result is held as the exact   *)
(* fraction <<num, den>>; for texts of fewer than 3000 words the float     *)
(* comparison with 0.92 agrees with the exact one.  A division by zero     *)
(* raises ZeroDivisionError.                                               *)
(***************************************************************************)
\* <<invalidWords, validWords>> after the loop over the words
wordLoop(textWords) ==
    LET invalid == {i \in 1..Len(textWords) :
                       checkInvalidChars(textWords[i]) = TRUE}
    IN  <<Cardinality(invalid), Len(textWords) - Cardinality(invalid)>>

Raised(e) == [fault |-> e, num |-> 0, den |-> 1]
Float(n, d) == [fault |-> "none", num |-> n, den |-> d]

\* 1 - (a / b)
oneMinusQuotient(a, b) ==
    IF b = 0 THEN Raised("ZeroDivisionError") ELSE Float(b - a, b)

checktextQuality(t) ==
    LET textWords == textSlicer(t)
        counts == wordLoop(textWords)
        invalidWords == counts[1]
        validWords == counts[2]
    IN  oneMinusQuotient(invalidWords, invalidWords + validWords)

\* variant of the comparison that is not strict
greaterOrEqual(x, y) == x.num * y[2] >= y[1] * x.den

\* x > y for a returned float x and a fraction y
greater(x, y) == x.num * y[2] > y[1] * x.den

(***************************************************************************)
(* Files.  pageText.encode('utf-8') and the text-mode reads and writes     *)
(* with encoding='utf-8' go through UTF-8; a text-mode read (newline=None) *)
(* also turns "\r\n" and "\r" into "\n"; a text-mode write on POSIX leaves *)
(* "\n" as it is.                                                          *)
(***************************************************************************)
encodeChar(c) ==
    IF c < 128 THEN <<c>>
    ELSE IF c < 2048 THEN <<192 + (c \div 64), 128 + (c % 64)>>
    ELSE IF c < 65536
         THEN <<224 + (c \div 4096), 128 + ((c \div 64) % 64), 128 + (c % 64)>>
    ELSE <<240 + (c \div 262144), 128 + ((c \div 4096) % 64),
           128 + ((c \div 64) % 64), 128 + (c % 64)>>

\* the encodings of the characters lo..hi of s, joined
RECURSIVE encodeRange(_, _, _)
encodeRange(s, lo, hi) ==
    IF lo > hi THEN <<>>
    ELSE IF lo = hi THEN encodeChar(s[lo])
    ELSE LET mid == (lo + hi) \div 2
         IN  encodeRange(s, lo, mid) \o encodeRange(s, mid + 1, hi)

encode(s) == encodeRange(s, 1, Len(s))

isLead(byte) == byte < 128 \/ byte >= 192

width(byte) ==
    IF byte < 128 THEN 1 ELSE IF byte < 224 THEN 2 ELSE IF byte < 240 THEN 3 ELSE 4

decodeAt(b, i) ==
    IF b[i] < 128 THEN b[i]
    ELSE IF b[i] < 224 THEN (b[i] - 192) * 64 + (b[i + 1] - 128)
    ELSE IF b[i] < 240
         THEN (b[i] - 224) * 4096 + (b[i + 1] - 128) * 64 + (b[i + 2] - 128)
    ELSE (b[i] - 240) * 262144 + (b[i + 1] - 128) * 4096
             + (b[i + 2] - 128) * 64 + (b[i + 3] - 128)

\* the characters encoded by the bytes lo..hi of b, where lo starts a
\* character and hi ends one: the character that holds the middle byte,
\* between the characters before it and those after it
RECURSIVE decodeRange(_, _, _)
decodeRange(b, lo, hi) ==
    IF lo > hi THEN <<>>
    ELSE LET mid == (lo + hi) \div 2
             p == CHOOSE i \in lo..mid :
                      isLead(b[i]) /\ \A j \in (i + 1)..mid : ~isLead(b[j])
         IN  decodeRange(b, lo, p - 1) \o <<decodeAt(b, p)>>
                 \o decodeRange(b, p + width(b[p]), hi)

decode(b) == decodeRange(b, 1, Len(b))

universalNewlines(t) ==
    Then(replace(t, <<13, 10>>, <<10>>), LAMBDA x : replace(x, <<13>>, <<10>>))

\* file.read() of a file opened with 'r', encoding='utf-8'
readText(b) == Then(decode(b), LAMBDA x : universalNewlines(x))

\* fileName[:-4] + '.txt', the name of the file inside testTXTDir
txtName(fileName) == SubSeq(fileName, 1, Len(fileName) - 4) \o <<46, 116, 120, 116>>

\* the pages of a document joined in page order
RECURSIVE joinPages(_, _)
joinPages(pages, n) ==
    IF n = 0 THEN <<>> ELSE joinPages(pages, n - 1) \o pages[n]

rawText(pages) == joinPages(pages, Len(pages))

(***************************************************************************)
(* The batch: the module-level loop, lines 183-184, and transcribePDF,     *)
(* lines 153-177.  An exception that nothing catches ends the interpreter. *)
(***************************************************************************)
Locals == <<pageNo, text, fixedText, qualityScore>>
Direct == <<arg, ret>>

current == dir[idx]

\* for file in os.listdir(testPDFDir): the next entry
ForNext ==
    /\ pc = "loop"
    /\ idx < Len(dir)
    /\ idx' = idx + 1
    /\ pc' = "open"
    /\ UNCHANGED <<dir, pdfs, files, Locals, outcome, ocrCalls, exception, Direct>>

\* the loop is exhausted and the module ends
ForEnd ==
    /\ pc = "loop"
    /\ idx = Len(dir)
    /\ pc' = "done"
    /\ UNCHANGED <<dir, pdfs, idx, files, Locals, outcome, ocrCalls, exception, Direct>>

\* lines 160-163: pymupdf.open raises on a file it cannot read; otherwise
\* open(txtPath, 'wb') creates or truncates the text file
OpenPDF ==
    /\ pc = "open"
    /\ IF pdfs[current].readable
       THEN /\ files' = (txtName(current) :> <<>>) @@ files
            /\ pageNo' = 1
            /\ pc' = "pages"
            /\ UNCHANGED exception
       ELSE /\ exception' = "FileDataError"
            /\ pc' = "crashed"
            /\ UNCHANGED <<files, pageNo>>
    /\ UNCHANGED <<dir, pdfs, idx, text, fixedText, qualityScore, outcome,
                   ocrCalls, Direct>>

\* lines 164-166: one iteration of the page loop
WritePage ==
    /\ pc = "pages"
    /\ pageNo <= Len(pdfs[current].pages)
    /\ files' = [files EXCEPT ![txtName(current)] =
                     @ \o encode(pdfs[current].pages[pageNo])]
    /\ pageNo' = pageNo + 1
    /\ UNCHANGED <<dir, pdfs, idx, pc, text, fixedText, qualityScore, outcome,
                   ocrCalls, exception, Direct>>

\* lines 167-170: close the file, read it back as text and repair it
ReadBack ==
    /\ pc = "pages"
    /\ pageNo > Len(pdfs[current].pages)
    /\ text' = readText(files[txtName(current)])
    /\ fixedText' = fixText(text')
    /\ pc' = "score"
    /\ UNCHANGED <<dir, pdfs, idx, files, pageNo, qualityScore, outcome,
                   ocrCalls, exception, Direct>>

\* line 171, the call: checktextQuality(fixedText)
Score ==
    /\ pc = "score"
    /\ qualityScore' = checktextQuality(fixedText)
    /\ IF qualityScore'.fault = "none"
       THEN pc' = "branch" /\ UNCHANGED exception
       ELSE pc' = "crashed" /\ exception' = qualityScore'.fault
    /\ UNCHANGED <<dir, pdfs, idx, files, pageNo, text, fixedText, outcome,
                   ocrCalls, Direct>>

\* lines 171-175: the score is greater than the threshold
Accept ==
    /\ pc = "branch"
    /\ greater(qualityScore, qualityScoreThreshold)
    /\ files' = [files EXCEPT ![txtName(current)] = encode(cleanText(fixedText))]
    /\ outcome' = [outcome EXCEPT ![idx] = "Accepted"]
    /\ pc' = "loop"
    /\ UNCHANGED <<dir, pdfs, idx, Locals, ocrCalls, exception, Direct>>

\* variant of the reject branch that writes the repaired text back
FallThroughRewrite ==
    /\ pc = "branch"
    /\ ~greater(qualityScore, qualityScoreThreshold)
    /\ files' = [files EXCEPT ![txtName(current)] = encode(fixedText)]
    /\ outcome' = [outcome EXCEPT ![idx] = "RejectedLowQuality"]
    /\ pc' = "loop"
    /\ UNCHANGED <<dir, pdfs, idx, Locals, ocrCalls, exception, Direct>>

\* lines 171, 176-177: otherwise transcribePDF returns with nothing done
FallThrough ==
    /\ pc = "branch"
    /\ ~greater(qualityScore, qualityScoreThreshold)
    /\ outcome' = [outcome EXCEPT ![idx] = "RejectedLowQuality"]
    /\ pc' = "loop"
    /\ UNCHANGED <<dir, pdfs, idx, files, Locals, ocrCalls, exception, Direct>>

Next ==
    \/ ForNext
    \/ ForEnd
    \/ OpenPDF
    \/ WritePage
    \/ ReadBack
    \/ Score
    \/ Accept
    \/ FallThrough

\* "a.pdf", "a.PDF", "b.pdf"
FileNames ==
    {<<97, 46, 112, 100, 102>>, <<97, 46, 80, 68, 70>>, <<98, 46, 112, 100, 102>>}

\* "a a a a a a a a a a a a ★\n": twelve valid words and an invalid one
p12 == Rep(<<97, 32>>, 12) \o <<9733, 10>>
\* "a a a a a a a a a a a ★\n": eleven valid words and an invalid one
p11 == Rep(<<97, 32>>, 11) \o <<9733, 10>>
\* "a\r◦\nb\n"
pCR == <<97, 13, 9702, 10, 98, 10>>
\* "ﬁ e´ ◦\n"
pLig == <<64257, 32, 101, 180, 32, 9702, 10>>
\* "ﬁ ★\n"
pBad == <<64257, 32, 9733, 10>>

PageTexts == {p12, p11, pCR, pLig, pBad, <<>>}

Unreadable == [readable |-> FALSE, pages |-> <<>>]
PDF(pages) == [readable |-> TRUE, pages |-> pages]

Range(f) == {f[i] : i \in DOMAIN f}

InitBatch(dirs, docs) ==
    /\ dir \in dirs
    /\ pdfs \in [Range(dir) -> docs]
    /\ idx = 0
    /\ pc = "loop"
    /\ files = <<>>
    /\ pageNo = 0
    /\ text = <<>>
    /\ fixedText = <<>>
    /\ qualityScore = Float(0, 1)
    /\ outcome = [j \in 1..Len(dir) |-> "none"]
    /\ ocrCalls = [j \in 1..Len(dir) |-> 0]
    /\ exception = "none"
    /\ arg = <<>>
    /\ ret = <<>>

\* one document of up to MaxPages pages
Init ==
    InitBatch({<<n>> : n \in FileNames},
              {Unreadable} \cup {PDF(p) : p \in StrUpTo(PageTexts, MaxPages)})

Spec == Init /\ [][Next]_vars

\* up to MaxDocs documents of at most one page
InitDocs ==
    InitBatch({d \in StrUpTo(FileNames, MaxDocs) :
                  d # <<>> /\ \A i, j \in 1..Len(d) : i # j => d[i] # d[j]},
              {Unreadable, PDF(<<>>), PDF(<<pLig>>), PDF(<<pBad>>)})

SpecBatch == InitDocs /\ [][Next]_vars

(***************************************************************************)
(* Functions called directly on a drawn argument.                          *)
(***************************************************************************)
NoBatch ==
    /\ dir = <<>>
    /\ pdfs = <<>>
    /\ idx = 0
    /\ files = <<>>
    /\ pageNo = 0
    /\ text = <<>>
    /\ fixedText = <<>>
    /\ qualityScore = Float(0, 1)
    /\ outcome = <<>>
    /\ ocrCalls = <<>>
    /\ exception = "none"

Batch == <<dir, pdfs, idx, files, pageNo, text, fixedText, qualityScore,
           outcome, ocrCalls, exception>>

\* 'a', '\n', '§', '°', '•', '◦', '★', 'ﬁ'
WordAlphabet == {97, 10, 167, 176, 8226, 9702, 9733, 64257}

InitWord ==
    /\ NoBatch
    /\ pc = "call"
    /\ arg \in StrUpTo(WordAlphabet, MaxWordLen)
    /\ ret = FALSE

Call_checkInvalidChars ==
    /\ pc = "call"
    /\ ret' = checkInvalidChars(arg)
    /\ pc' = "return"
    /\ UNCHANGED <<Batch, arg>>

SpecWord == InitWord /\ [][Call_checkInvalidChars]_vars

\* 'e', 'f', 'i', '´', 'æ', 'ﬁ'
FixAlphabet == {101, 102, 105, 180, 230, 64257}

InitFix ==
    /\ NoBatch
    /\ pc = "call"
    /\ arg \in StrUpTo(FixAlphabet, MaxFixLen)
    /\ ret = <<>>

Call_fixText ==
    /\ pc = "call"
    /\ ret' = fixText(arg)
    /\ pc' = "return"
    /\ UNCHANGED <<Batch, arg>>

SpecFix == InitFix /\ [][Call_fixText]_vars

\* 'a', '§', '¢', 'â', '€', '★'
CleanAlphabet == {97, 167, 162, 226, 8364, 9733}

InitClean ==
    /\ NoBatch
    /\ pc = "call"
    /\ arg \in StrUpTo(CleanAlphabet, MaxCleanLen)
    /\ ret = <<>>

Call_cleanText ==
    /\ pc = "call"
    /\ ret' = cleanText(arg)
    /\ pc' = "return"
    /\ UNCHANGED <<Batch, arg>>

SpecClean == InitClean /\ [][Call_cleanText]_vars

\* 'a', ' ', '\n', '★'
ScoreAlphabet == {97, 32, 10, 9733}

InitScore ==
    /\ NoBatch
    /\ pc = "call"
    /\ arg \in StrUpTo(ScoreAlphabet, MaxScoreLen)
    /\ ret = Float(0, 1)

Call_checktextQuality ==
    /\ pc = "call"
    /\ ret' = checktextQuality(arg)
    /\ pc' = "return"
    /\ UNCHANGED <<Batch, arg>>

SpecScore == InitScore /\ [][Call_checktextQuality]_vars

(***************************************************************************)
(* Properties of the directly called functions.                            *)
(***************************************************************************)
InSomeRange(c) ==
    \/ 32 <= c /\ c <= 126
    \/ 160 <= c /\ c <= 255
    \/ 880 <= c /\ c <= 1023
    \/ 8192 <= c /\ c <= 8303
    \/ 8704 <= c /\ c <= 8959

IsControl(c) == c \in {10, 13, 9}

\* C1: checktextQuality returns, for every text, a value in [0,1] without
\* raising, and 1.0 for a text of zero words.
C1_ScoreDefinedInUnitInterval ==
    pc = "return" =>
        /\ ret.fault = "none"
        /\ 0 <= ret.num /\ ret.num <= ret.den /\ ret.den > 0
        /\ (\A i \in 1..Len(arg) : isspace(arg[i])) => ret.num = ret.den

\* C6: checkInvalidChars(word) is True iff word has a character that is no
\* allowed control character, is not whitelisted, and is outside every
\* allowed range or blacklisted; so a character both whitelisted and
\* blacklisted is allowed and the empty word is valid.
C6_WordRule ==
    pc = "return" =>
        (ret <=> \E i \in 1..Len(arg) :
                    /\ ~IsControl(arg[i])
                    /\ arg[i] \notin whiteListedChars
                    /\ (~InSomeRange(arg[i]) \/ arg[i] \in blackListedChars))

C6_Witness ==
    /\ pc = "return"
    /\ arg # <<>>
    /\ \A i \in 1..Len(arg) : arg[i] \in whiteListedChars \cap blackListedChars
    /\ ret = FALSE

\* C7 as stated: a word with a character outside all allowed ranges and not
\* whitelisted is invalid, the control characters included.
C7_OutOfRangeInvalid_Original ==
    pc = "return" =>
        ((\E i \in 1..Len(arg) :
              ~InSomeRange(arg[i]) /\ arg[i] \notin whiteListedChars)
            => ret = TRUE)

\* C7 amended: a word with a character that is outside all allowed ranges,
\* not whitelisted and not one of the allowed control characters is invalid,
\* whether or not the character is blacklisted.
C7_OutOfRangeInvalid ==
    pc = "return" =>
        ((\E i \in 1..Len(arg) :
              /\ ~InSomeRange(arg[i])
              /\ arg[i] \notin whiteListedChars
              /\ ~IsControl(arg[i]))
            => ret = TRUE)

C7_Witness ==
    /\ pc = "return"
    /\ \E i \in 1..Len(arg) :
          /\ ~InSomeRange(arg[i])
          /\ arg[i] \notin whiteListedChars
          /\ ~IsControl(arg[i])
          /\ arg[i] \notin blackListedChars
    /\ ret = TRUE

\* C8: fixText is idempotent, and its result holds no occurrence of a
\* ligature key or of a broken-accent key.
C8_FixTextIdempotent ==
    pc = "return" =>
        /\ fixText(ret) = ret
        /\ \A n \in 1..Len(ligatures) : ~Occurs(ligatures[n][1], ret)
        /\ \A n \in 1..Len(brokenAccents) : ~Occurs(brokenAccents[n][1], ret)

\* a ligature whose letters join the following mark into an accent key
C8_Witness ==
    /\ pc = "return"
    /\ \E i \in 1..(Len(arg) - 1) : arg[i] = 64257 /\ arg[i + 1] = 180
    /\ Occurs(<<102, 237>>, ret)

\* C9: no blacklisted character occurs in cleanText(t).
C9_NoBlacklistedAfterClean ==
    pc = "return" => \A i \in 1..Len(ret) : ret[i] \notin blackListedChars

(***************************************************************************)
(* Properties of the batch.                                                *)
(***************************************************************************)
\* transcribePDF has returned for dir[idx]
Returned == pc = "loop" /\ idx >= 1

pagesOf(j) == pdfs[dir[j]].pages

\* C2: a document is accepted, its cleaned text persisted, iff its score is
\* strictly greater than 0.92; a score equal to the threshold takes the
\* reject branch.
C2_AcceptIffAboveThreshold ==
    Returned =>
        LET counts == wordLoop(textSlicer(fixedText))
            invalidWords == counts[1]
            validWords == counts[2]
        IN  /\ outcome[idx] = "Accepted"
                  <=> 100 * validWords > 92 * (invalidWords + validWords)
            /\ outcome[idx] = "Accepted"
                  => files[txtName(current)] = encode(cleanText(fixedText))
            /\ 100 * validWords = 92 * (invalidWords + validWords)
                  => outcome[idx] = "RejectedLowQuality"

\* the boundary document of 2 invalid and 23 valid words is rejected
C2_Witness ==
    /\ Returned
    /\ wordLoop(textSlicer(fixedText)) = <<2, 23>>
    /\ outcome[idx] = "RejectedLowQuality"

\* C3: a document that is rejected has had exactly one OCR fallback attempt.
C3_ExactlyOneOcrFallback ==
    (Returned /\ outcome[idx] = "RejectedLowQuality") => ocrCalls[idx] = 1

\* C4: when the run has ended, every document other than one that failed
\* has been processed to its own outcome.
C4_FailureDoesNotAbortBatch ==
    pc \in {"done", "crashed"} =>
        \A j \in 1..Len(dir) :
            (exception # "none" /\ j = idx) \/ outcome[j] # "none"

\* C5: the text file of an accepted document holds clean(repair(rawText)),
\* rawText being the page texts joined in page order.
C5_AcceptedFileIsCleanRepairRaw ==
    (Returned /\ outcome[idx] = "Accepted") =>
        files[txtName(current)] = encode(cleanText(fixText(rawText(pagesOf(idx)))))

\* C10: the raw page texts are in the text file before the score is taken,
\* a document that is not accepted leaves exactly them there, and every
\* document that reached an outcome has a text file.
C10_RejectedFileIsRaw ==
    /\ pc \in {"score", "branch"} =>
           files[txtName(current)] = encode(rawText(pagesOf(idx)))
    /\ (Returned /\ outcome[idx] = "RejectedLowQuality") =>
           files[txtName(current)] = encode(rawText(pagesOf(idx)))
    /\ \A j \in 1..Len(dir) :
           outcome[j] # "none" => txtName(dir[j]) \in DOMAIN files

\* a rejected document whose raw text differs from its repaired text
C10_Witness ==
    /\ Returned
    /\ outcome[idx] = "RejectedLowQuality"
    /\ fixText(rawText(pagesOf(idx))) # rawText(pagesOf(idx))
    /\ files[txtName(current)] = encode(rawText(pagesOf(idx)))

====
